---- MODULE Spec2Model ----
(***************************************************************************)
(* A model of main.py: the sheet comparison cascade of SheetComparator     *)
(* (compare, _compare_data, _generate_differences_df), and the folder loop *)
(* of App.run with FileComparator.process_pair.                            *)
(*                                                                         *)
(* A DataFrame is a record [columns, dtypes, height, rows]; rows[i][j] is  *)
(* the cell of row i (1-based here, Row Index i-1 in the program) and of   *)
(* the j-th column.  Column names are texts, kept as tuples of code points *)
(* so that the sort of the diff list compares them as text.                *)
(***************************************************************************)
EXTENDS Integers, Sequences, FiniteSets, TLC

\* ------------------------------------------------------------- bounds
MaxCols == 2       \* widest frame of the inputs
MaxRows == 20      \* tallest frame of the inputs
MaxEdits == 2      \* cells of a same-schema pair that are set apart from the fill
MaxEntries == 2    \* directory entries of the folder App.run walks

\* ------------------------------------------------------------- Config
MAX_EXCEL_ROWS == 1000000
\* MISMATCH_THRESHOLD = 0.10, kept as the exact ratio 10/100.  The program
\* compares the double mismatch_count / total_rows with the double 0.10; a
\* correctly rounded quotient of two row counts below 2^53 is above the
\* double 0.10 exactly when the exact ratio is above 1/10.
MISMATCH_THRESHOLD_PCT == 10

\* ------------------------------------------------------------- texts
ColId == <<105, 100>>                      \* "id"
ColVal == <<118, 97, 108>>                 \* "val"
ColValue == <<118, 97, 108, 117, 101>>     \* "value"
Names == {ColId, ColVal, ColValue}

\* a < b as texts: at the first place they differ a has the smaller code
\* point, or a is a proper prefix of b.
TextLess(a, b) ==
  \E k \in 1..(Len(a) + 1) :
    /\ \A m \in 1..(k - 1) : m <= Len(b) /\ a[m] = b[m]
    /\ \/ k = Len(a) + 1 /\ Len(b) >= k
       \/ k <= Len(a) /\ k <= Len(b) /\ a[k] < b[k]

\* ------------------------------------------------------------- cells
Dtypes == {"Int64", "Float64"}

Null == [isnull |-> TRUE, neg |-> FALSE, mag |-> 0]
Num(neg, mag) == [isnull |-> FALSE, neg |-> neg, mag |-> mag]

\* The number a non-null cell holds; a Float64 cell may hold -0.0, which is
\* the number 0.
Signed(v) == IF v.neg THEN 0 - v.mag ELSE v.mag

\* c1 != c2 of two columns of one dtype, at one row: null when a side is
\* null (<<>>), else whether the numbers differ (<<b>>).
NotEqual(a, b) ==
  IF a.isnull \/ b.isnull THEN <<>> ELSE <<Signed(a) # Signed(b)>>

fill_null(x, d) == IF x = <<>> THEN d ELSE x[1]

DigitChars == <<"0", "1", "2", "3", "4", "5", "6", "7", "8", "9">>

RECURSIVE Decimal(_)
Decimal(n) ==
  IF n < 10 THEN <<DigitChars[n + 1]>>
  ELSE Decimal(n \div 10) \o <<DigitChars[(n % 10) + 1]>>

NullStr == [isnull |-> TRUE, chars |-> <<>>]

\* cast(pl.Utf8): null stays null; an Int64 renders as its decimal digits, a
\* Float64 with its sign (also the sign of -0.0) and a fractional part.
CastUtf8(dtype, v) ==
  IF v.isnull THEN NullStr
  ELSE [isnull |-> FALSE,
        chars |-> (IF v.neg THEN <<"-">> ELSE <<>>) \o Decimal(v.mag)
                  \o (IF dtype = "Float64" THEN <<".", "0">> ELSE <<>>)]

\* ------------------------------------------------------------- frames
Shape(df) == <<df.height, Len(df.columns)>>

ToSet(s) == {s[k] : k \in 1..Len(s)}

ColPos(cols, c) == CHOOSE j \in 1..Len(cols) : cols[j] = c

Cell(df, i, c) == df.rows[i][ColPos(df.columns, c)]

DtypeOf(df, c) == df.dtypes[ColPos(df.columns, c)]

\* ------------------------------------------------------------- CompareResult
CompareResult(status, match_rate, details, shape1, shape2) ==
  [status |-> status, match_rate |-> match_rate, details |-> details,
   shape1 |-> shape1, shape2 |-> shape2]

\* match_rate is a double in the program; here the exact ratio num/den.
Rate(num, den) == [num |-> num, den |-> den]

\* The details text, by what it is formatted from.
Details(text, shapes, diff_cols, type_diff, rows_differ) ==
  [text |-> text, shapes |-> shapes, diff_cols |-> diff_cols,
   type_diff |-> type_diff, rows_differ |-> rows_differ]

NoDiff == [present |-> FALSE, records |-> <<>>]
DiffFrame(records) == [present |-> TRUE, records |-> records]

Outcome(result, diff, stages, mask) ==
  [result |-> result, diff_df |-> diff, stages |-> stages, mask |-> mask]

\* ------------------------------------------------------------- row matching
\* is_diff without its two null tests.
is_diff_values_only(c1, c2) == fill_null(NotEqual(c1, c2), FALSE)

\* The expression built per column in _compare_data.
is_diff(c1, c2) ==
  \/ c1.isnull /\ ~c2.isnull
  \/ ~c1.isnull /\ c2.isnull
  \/ fill_null(NotEqual(c1, c2), FALSE)

\* pl.any_horizontal(exprs) over the columns of df1, each paired with the
\* column of df2 renamed "<c>_v2".
FieldwiseMask(df1, df2) ==
  [i \in 1..df1.height |->
     \E k \in 1..Len(df1.columns) :
        is_diff(Cell(df1, i, df1.columns[k]), Cell(df2, i, df1.columns[k]))]

\* A row key that keeps the sign of a float zero.
HashKeySigned(row) == row

\* What hash_rows reads of a row: its values in column order, a float zero
\* without its sign.
HashKey(row) ==
  [j \in 1..Len(row) |->
     IF ~row[j].isnull /\ row[j].mag = 0 THEN Num(FALSE, 0) ELSE row[j]]

\* hash_rows is a pure function of the row into 64 bits: equal keys hash
\* alike, and two different keys hash alike when they collide.
SameHash(r1, r2, collisions) ==
  \/ HashKey(r1) = HashKey(r2)
  \/ {HashKey(r1), HashKey(r2)} \in collisions

HashMask(df1, df2, collisions) ==
  [i \in 1..df1.height |-> ~SameHash(df1.rows[i], df2.rows[i], collisions)]

\* ------------------------------------------------------------- melting
\* with_row_index("Row Index").filter(mask), cast to Utf8, unpivot: one
\* record per flagged row and column.
Melt(df, mask) ==
  {[row_index |-> i - 1, column_name |-> df.columns[k],
    value |-> CastUtf8(df.dtypes[k], df.rows[i][k])] :
     i \in {r \in 1..df.height : mask[r]}, k \in 1..Len(df.columns)}

\* melt1.join(melt2, on=["Row Index", "Column Name"])
JoinMelts(melt1, melt2) ==
  {[row_index |-> m[1].row_index, column_name |-> m[1].column_name,
    value_v1 |-> m[1].value, value_v2 |-> m[2].value] :
     m \in {p \in melt1 \X melt2 :
              /\ p[1].row_index = p[2].row_index
              /\ p[1].column_name = p[2].column_name}}

\* (Value V1 != Value V2).fill_null(True) & ~(both null), on the strings.
StrNotEqual(a, b) ==
  IF a.isnull \/ b.isnull THEN <<>> ELSE <<a.chars # b.chars>>

KeepDiff(r) ==
  /\ fill_null(StrNotEqual(r.value_v1, r.value_v2), TRUE)
  /\ ~(r.value_v1.isnull /\ r.value_v2.isnull)

\* diff_df.join(schema_df, on="Column Name"), schema_df holding the names
\* and dtypes of df1, and the final select.
AttachType(kept, df1) ==
  {[row_index |-> p[1].row_index, column_name |-> p[1].column_name,
    column_type |-> df1.dtypes[p[2]],
    value_v1 |-> p[1].value_v1, value_v2 |-> p[1].value_v2] :
     p \in {q \in kept \X (1..Len(df1.columns)) :
              df1.columns[q[2]] = q[1].column_name}}

\* A sort on "Row Index" alone.
SortsBeforeByRow(a, b) == a.row_index < b.row_index

\* The order of two records under sort(["Row Index", "Column Name"]).
SortsBefore(a, b) ==
  \/ a.row_index < b.row_index
  \/ a.row_index = b.row_index /\ TextLess(a.column_name, b.column_name)

RECURSIVE Insert(_, _)
Insert(sorted, r) ==
  IF sorted = <<>> THEN <<r>>
  ELSE IF SortsBefore(r, Head(sorted)) THEN <<r>> \o sorted
  ELSE <<Head(sorted)>> \o Insert(Tail(sorted), r)

RECURSIVE Sort(_)
Sort(records) ==
  IF records = <<>> THEN <<>>
  ELSE Insert(Sort(SubSeq(records, 1, Len(records) - 1)),
              records[Len(records)])

\* The rows of a join come in no guaranteed order: every arrangement.
RECURSIVE Arrangements(_)
Arrangements(S) ==
  IF S = {} THEN {<<>>}
  ELSE UNION {{<<x>> \o rest : rest \in Arrangements(S \ {x})} : x \in S}

\* _generate_differences_df: every frame it can return.
GenerateDifferences(df1, df2, mismatch_mask) ==
  LET melt1 == Melt(df1, mismatch_mask)
      melt2 == Melt(df2, mismatch_mask)
      kept == {r \in JoinMelts(melt1, melt2) : KeepDiff(r)}
  IN  {Sort(unordered) : unordered \in Arrangements(AttachType(kept, df1))}

\* ------------------------------------------------------------- compare
Count(mask) == Cardinality({i \in 1..Len(mask) : mask[i]})

MismatchMask(df1, df2, use_hash, collisions) ==
  IF use_hash THEN HashMask(df1, df2, collisions)
  ELSE FieldwiseMask(df1, df2)

\* The threshold test with >= in place of >.
AtOrOverThreshold(mismatch_count, total_rows) ==
  mismatch_count * 100 >= MISMATCH_THRESHOLD_PCT * total_rows

\* mismatch_count / total_rows > Config.MISMATCH_THRESHOLD
OverThreshold(mismatch_count, total_rows) ==
  mismatch_count * 100 > MISMATCH_THRESHOLD_PCT * total_rows

\* The ratio of the mismatched rows in place of the matched ones.
MatchRateOfMismatches(total_rows, mismatch_count) ==
  Rate(mismatch_count, total_rows)

\* match_rate = (total_rows - mismatch_count) / total_rows
MatchRate(total_rows, mismatch_count) ==
  Rate(total_rows - mismatch_count, total_rows)

\* _compare_data: every (result, diff frame) it can return, with the
\* stages run so far.
CompareData(df1, df2, shape1, shape2, use_hash, collisions, stages) ==
  LET mismatch_mask == MismatchMask(df1, df2, use_hash, collisions)
      mismatch_count == Count(mismatch_mask)
      total_rows == df1.height
      match_rate == MatchRate(total_rows, mismatch_count)
      rows_differ == Details("rows differ", <<>>, {}, {}, mismatch_count)
  IN  IF mismatch_count = 0
      THEN {Outcome(CompareResult("Perfect match", Rate(1, 1),
                                  Details("", <<>>, {}, {}, 0), shape1, shape2),
                    NoDiff, stages, mismatch_mask)}
      ELSE IF OverThreshold(mismatch_count, total_rows)
      THEN {Outcome(CompareResult("Data mismatch >10.0%", match_rate,
                                  rows_differ, shape1, shape2),
                    NoDiff, stages, mismatch_mask)}
      ELSE {Outcome(CompareResult("Data mismatch", match_rate,
                                  rows_differ, shape1, shape2),
                    DiffFrame(d), stages \o <<"melt">>, mismatch_mask) :
              d \in GenerateDifferences(df1, df2, mismatch_mask)}

SymmetricDifference(A, B) == (A \ B) \cup (B \ A)

\* The column test on the sets of names, and the empty test on the width.
ColumnsDifferAsSets(columns1, columns2) == ToSet(columns1) # ToSet(columns2)

NoRowsByWidth(shape1) == shape1[2] = 0

\* The conditions of the cascade, in the order compare tests them.
ShapesDiffer(shape1, shape2) == shape1 # shape2

ColumnsDiffer(columns1, columns2) == columns1 # columns2

DtypesDiffer(dtypes1, dtypes2) == dtypes1 # dtypes2

NoRows(shape1) == shape1[1] = 0

\* SheetComparator.compare: every outcome of one call.
compare(df1, df2, use_hash, collisions) ==
  LET shape1 == Shape(df1)
      shape2 == Shape(df2)
  IN  IF ShapesDiffer(shape1, shape2)
      THEN {Outcome(CompareResult("Shape mismatch", Rate(0, 1),
                       Details("shapes", <<shape1, shape2>>, {}, {}, 0),
                       shape1, shape2),
                    NoDiff, <<"shape">>, <<>>)}
      ELSE IF ColumnsDiffer(df1.columns, df2.columns)
      THEN {Outcome(CompareResult("Column names mismatch", Rate(0, 1),
                       Details("Diff cols", <<>>,
                               SymmetricDifference(ToSet(df1.columns),
                                                   ToSet(df2.columns)),
                               {}, 0),
                       shape1, shape2),
                    NoDiff, <<"shape", "columns">>, <<>>)}
      ELSE IF DtypesDiffer(df1.dtypes, df2.dtypes)
      THEN {Outcome(CompareResult("Column type mismatch", Rate(0, 1),
                       Details("Type diffs", <<>>, {},
                               {<<df1.columns[k], df1.dtypes[k], df2.dtypes[k]>> :
                                  k \in {j \in 1..Len(df1.columns) :
                                           df1.dtypes[j] # df2.dtypes[j]}},
                               0),
                       shape1, shape2),
                    NoDiff, <<"shape", "columns", "types">>, <<>>)}
      ELSE IF NoRows(shape1)
      THEN {Outcome(CompareResult("Perfect match", Rate(1, 1),
                       Details("Files are empty (Headers only)", <<>>, {}, {}, 0),
                       shape1, shape2),
                    NoDiff, <<"shape", "columns", "types", "empty">>, <<>>)}
      ELSE CompareData(df1, df2, shape1, shape2, use_hash, collisions,
                       <<"shape", "columns", "types", "empty", "rows">>)

\* ------------------------------------------------------------- state
VARIABLES
  df1, df2,          \* the two frames handed to compare
  use_hash,          \* SheetComparator.use_hash
  hash_collisions,   \* the pairs of different row keys hash_rows maps alike
  calls,             \* calls of compare made on these inputs
  result, diff_df,   \* what the last call returned
  stages, mask,      \* the checks the last call ran, and its mismatch mask
  previous,          \* what the call before the last returned
  entries,           \* App.run: the entries of folder_path, in listdir order
  item,              \* App.run: entries the loop has taken
  pc,                \* App.run: "idle", "loop" or "done"
  printed,           \* the status lines printed, each with its entry
  written            \* the files written, each with its entry

sheet_vars == <<df1, df2, use_hash, hash_collisions, calls, result, diff_df,
                stages, mask, previous>>
app_vars == <<entries, item, pc, printed, written>>
vars == <<df1, df2, use_hash, hash_collisions, calls, result, diff_df,
          stages, mask, previous, entries, item, pc, printed, written>>

\* ------------------------------------------------------------- inputs
\* A cell that nothing sets apart.
FillValue(dtype) == IF dtype = "Float64" THEN Num(FALSE, 0) ELSE Num(FALSE, 1)

OtherValue(dtype) == IF dtype = "Float64" THEN Num(FALSE, 1) ELSE Num(FALSE, 2)

Frame(columns, dtypes, height, rows) ==
  [columns |-> columns, dtypes |-> dtypes, height |-> height, rows |-> rows]

FilledFrame(columns, dtypes, height, other) ==
  Frame(columns, dtypes, height,
        [i \in 1..height |->
           [j \in 1..Len(columns) |->
              IF other THEN OtherValue(dtypes[j]) ELSE FillValue(dtypes[j])]])

\* The column lists of a frame: names without repetition.
ColumnLists ==
  UNION {{s \in [1..n -> Names] : \A a, b \in 1..n : a # b => s[a] # s[b]} :
           n \in 0..MaxCols}

NameDtype(c) == IF c = ColValue THEN "Float64" ELSE "Int64"

\* A frame without columns has no rows.
SmallHeights(columns) == IF columns = <<>> THEN {0} ELSE {0, 1}

\* Frames of any two schemas: the first with every cell the fill of its
\* dtype, the second also with every cell another value.
SchemaInputs ==
  \E c1 \in ColumnLists, c2 \in ColumnLists :
    \E h1 \in SmallHeights(c1), h2 \in SmallHeights(c2),
       t2 \in [1..Len(c2) -> Dtypes], other \in BOOLEAN :
       /\ df1 = FilledFrame(c1, [j \in 1..Len(c1) |-> NameDtype(c1[j])], h1, FALSE)
       /\ df2 = FilledFrame(c2, t2, h2, other)

\* Frames of one schema that differ in a few cells.  The heights
\* sit on both sides of the threshold: two differing rows are more than 10%
\* of 19 rows and exactly 10% of 20 rows.
DataColumnOrder == <<ColValue, ColVal, ColId>>

DataColumns(width) == SubSeq(DataColumnOrder, 1, width)

DataHeights == {1, 10, MaxRows - 1, MaxRows}

\* The two values an edited cell holds, in df1 and in df2.
CellPairs(dtype) ==
  {<<Null, Null>>, <<Null, FillValue(dtype)>>, <<FillValue(dtype), Null>>,
   <<FillValue(dtype), OtherValue(dtype)>>} \cup
  (IF dtype = "Float64" THEN {<<Num(FALSE, 0), Num(TRUE, 0)>>}
   ELSE {<<OtherValue(dtype), OtherValue(dtype)>>})

EditCells(width, height) == {1, height} \X (1..width)

Edits(width, height) ==
  UNION {{e \in [cells -> UNION {CellPairs(d) : d \in Dtypes}] :
            \A cell \in cells :
               e[cell] \in CellPairs(NameDtype(DataColumns(width)[cell[2]]))} :
           cells \in {c \in SUBSET EditCells(width, height) :
                        Cardinality(c) <= MaxEdits}}

EditedFrame(width, height, edits, side) ==
  LET columns == DataColumns(width)
      dtypes == [j \in 1..width |-> NameDtype(columns[j])]
  IN  Frame(columns, dtypes, height,
            [i \in 1..height |->
               [j \in 1..width |->
                  IF <<i, j>> \in DOMAIN edits THEN edits[<<i, j>>][side]
                  ELSE FillValue(dtypes[j])]])

DataInputs ==
  \E w \in 1..MaxCols, h \in DataHeights :
    \E e \in Edits(w, h) :
       /\ df1 = EditedFrame(w, h, e, 1)
       /\ df2 = EditedFrame(w, h, e, 2)

\* The pairs of different row keys that meet at one row index: the pairs
\* whose hashes compare can tell apart or not.
KeyPairs(a, b) ==
  IF Shape(a) # Shape(b) THEN {}
  ELSE {{HashKey(a.rows[i]), HashKey(b.rows[i])} :
          i \in {r \in 1..a.height : HashKey(a.rows[r]) # HashKey(b.rows[r])}}

NoResult == CompareResult("", Rate(0, 1), Details("", <<>>, {}, {}, 0),
                          <<0, 0>>, <<0, 0>>)

NoOutput == [result |-> NoResult, diff_df |-> NoDiff]

AppIdle ==
  /\ entries = <<>>
  /\ item = 0
  /\ pc = "idle"
  /\ printed = <<>>
  /\ written = <<>>

Init ==
  /\ SchemaInputs \/ DataInputs
  /\ use_hash \in BOOLEAN
  /\ hash_collisions \in
        (IF use_hash THEN SUBSET KeyPairs(df1, df2) ELSE {{}})
  /\ calls = 0
  /\ result = NoResult
  /\ diff_df = NoDiff
  /\ stages = <<>>
  /\ mask = <<>>
  /\ previous = NoOutput
  /\ AppIdle

\* One call of SheetComparator(use_hash).compare(df1, df2); a second call
\* on the same frames keeps what the first returned.
Compare ==
  /\ calls < 2
  /\ \E out \in compare(df1, df2, use_hash, hash_collisions) :
        /\ result' = out.result
        /\ diff_df' = out.diff_df
        /\ stages' = out.stages
        /\ mask' = out.mask
  /\ previous' = [result |-> result, diff_df |-> diff_df]
  /\ calls' = calls + 1
  /\ UNCHANGED <<df1, df2, use_hash, hash_collisions>>
  /\ UNCHANGED app_vars

Next == Compare

Spec == Init /\ [][Next]_vars

\* ------------------------------------------------------------- App.run
\* A directory entry of folder_path, by what the loop reads of it: whether
\* it is a directory, how many sub-directories it holds, how many .xlsx
\* files the first and the second of them (by name) hold, the base names of
\* the first file of each, whether read_excel reads them, and the sheets of
\* each workbook in file order, each a [name, frame].
Entry(is_dir, subdirs, xlsx1, xlsx2, name1, name2, readable, sheets1, sheets2) ==
  [is_dir |-> is_dir, subdirs |-> subdirs, xlsx1 |-> xlsx1, xlsx2 |-> xlsx2,
   name1 |-> name1, name2 |-> name2, readable |-> readable,
   sheets1 |-> sheets1, sheets2 |-> sheets2]

Sheet(name, frame) == [name |-> name, frame |-> frame]

SheetNames(sheets) == {sheets[k].name : k \in 1..Len(sheets)}

SheetFrame(sheets, name) ==
  sheets[CHOOSE k \in 1..Len(sheets) : sheets[k].name = name].frame

\* The sheets of the workbooks: a sheet that matches, one of another
\* height, and a ten-row sheet with one differing row.
PlainSheet(height) == FilledFrame(<<ColId>>, <<"Int64">>, height, FALSE)

OneRowApart ==
  (<<10, 1>> :> <<Num(FALSE, 0), Num(TRUE, 0)>>) @@
  (<<10, 2>> :> <<Num(FALSE, 1), Num(FALSE, 2)>>)

\* The entries of the folder, each named by its kind.
EntryKinds ==
  {"file", "one_subdir", "no_xlsx", "other_name", "unreadable",
   "other_sheets", "three_sheets"}

EntryTable ==
  [kind \in EntryKinds |->
  CASE kind = "file" ->
         Entry(FALSE, 0, 0, 0, "", "", FALSE, <<>>, <<>>)
    [] kind = "one_subdir" ->
         Entry(TRUE, 1, 1, 0, "a.xlsx", "", TRUE, <<>>, <<>>)
    [] kind = "no_xlsx" ->
         Entry(TRUE, 2, 1, 0, "a.xlsx", "", TRUE, <<>>, <<>>)
    [] kind = "other_name" ->
         Entry(TRUE, 2, 1, 1, "a.xlsx", "b.xlsx", TRUE, <<>>, <<>>)
    [] kind = "unreadable" ->
         Entry(TRUE, 2, 1, 1, "a.xlsx", "a.xlsx", FALSE, <<>>, <<>>)
    [] kind = "other_sheets" ->
         Entry(TRUE, 2, 1, 1, "a.xlsx", "a.xlsx", TRUE,
               <<Sheet("S1", PlainSheet(2))>>, <<Sheet("S2", PlainSheet(2))>>)
    [] kind = "three_sheets" ->
         Entry(TRUE, 2, 1, 1, "a.xlsx", "a.xlsx", TRUE,
               <<Sheet("S1", PlainSheet(2)), Sheet("S2", PlainSheet(1)),
                 Sheet("S3", EditedFrame(2, 10, OneRowApart, 1))>>,
               <<Sheet("S3", EditedFrame(2, 10, OneRowApart, 2)),
                 Sheet("S2", PlainSheet(2)), Sheet("S1", PlainSheet(2))>>)]

EntryOf(kind) == EntryTable[kind]

\* A line of the table on stdout, and a file written into the entry's
\* directory, each with the index of its entry.
Line(k, target, shape1, shape2, status, details) ==
  [entry |-> k, target |-> target, shape1 |-> shape1, shape2 |-> shape2,
   status |-> status, details |-> details]

File(k, name, content) == [entry |-> k, name |-> name, content |-> content]

\* write_differences_xlsx: nothing for an empty frame, else one worksheet
\* per MAX_EXCEL_ROWS rows.
write_differences_xlsx(k, final_diff) ==
  IF final_diff = <<>> THEN <<>>
  ELSE <<File(k, "differences.xlsx",
              [c \in 1..((Len(final_diff) + MAX_EXCEL_ROWS - 1) \div MAX_EXCEL_ROWS) |->
                 SubSeq(final_diff, (c - 1) * MAX_EXCEL_ROWS + 1,
                        IF c * MAX_EXCEL_ROWS < Len(final_diff)
                        THEN c * MAX_EXCEL_ROWS ELSE Len(final_diff))])>>

\* The outcomes of compare on the first n sheets of the first workbook.
RECURSIVE SheetOutcomes(_, _, _, _)
SheetOutcomes(e, n, hash, collisions) ==
  IF n = 0 THEN {<<>>}
  ELSE {before \o <<o>> :
          before \in SheetOutcomes(e, n - 1, hash, collisions),
          o \in compare(e.sheets1[n].frame,
                        SheetFrame(e.sheets2, e.sheets1[n].name),
                        hash, collisions)}

\* all_diffs, concatenated: the records of every sheet that returned a diff
\* frame, each with its sheet name.
RECURSIVE AllDiffs(_, _, _)
AllDiffs(e, outcomes, n) ==
  IF n = 0 THEN <<>>
  ELSE AllDiffs(e, outcomes, n - 1) \o
       (IF outcomes[n].diff_df.present
        THEN [j \in 1..Len(outcomes[n].diff_df.records) |->
                [sheet_name |-> e.sheets1[n].name,
                 record |-> outcomes[n].diff_df.records[j]]]
        ELSE <<>>)

\* FileComparator.process_pair on entry k: every [printed, written] it can
\* leave.
process_pair(k, e, hash, collisions) ==
  IF e.name1 # e.name2
  THEN {[printed |-> <<Line(k, e.name1, "N/A", "N/A", "File name mismatch",
                            <<e.name1, e.name2>>)>>,
         written |-> <<>>]}
  ELSE IF ~e.readable
  THEN {[printed |-> <<Line(k, e.name1, "ERROR", "ERROR", "Read Error", "")>>,
         written |-> <<>>]}
  ELSE IF SheetNames(e.sheets1) # SheetNames(e.sheets2)
  THEN {[printed |-> <<Line(k, e.name1, "N/A", "N/A", "Sheet names mismatch",
                            SymmetricDifference(SheetNames(e.sheets1),
                                                SheetNames(e.sheets2)))>>,
         written |-> <<>>]}
  ELSE {[printed |->
           [n \in 1..Len(e.sheets1) |->
              Line(k, <<e.name1, e.sheets1[n].name>>,
                   outcomes[n].result.shape1, outcomes[n].result.shape2,
                   outcomes[n].result.status, outcomes[n].result.details)],
         written |->
           <<File(k, "report.txt",
                  [n \in 1..Len(e.sheets1) |->
                     [sheet |-> e.sheets1[n].name,
                      result |-> outcomes[n].result]])>> \o
           (IF \E n \in 1..Len(e.sheets1) : outcomes[n].diff_df.present
            THEN write_differences_xlsx(k, AllDiffs(e, outcomes, Len(e.sheets1)))
            ELSE <<>>)] :
          outcomes \in SheetOutcomes(e, Len(e.sheets1), hash, collisions)}

EntryLists == UNION {[1..n -> EntryKinds] : n \in 0..MaxEntries}

SheetIdle ==
  /\ df1 = PlainSheet(0)
  /\ df2 = PlainSheet(0)
  /\ calls = 0
  /\ result = NoResult
  /\ diff_df = NoDiff
  /\ stages = <<>>
  /\ mask = <<>>
  /\ previous = NoOutput

\* App(folder_path, use_hash), before run.
InitApp ==
  /\ entries \in EntryLists
  /\ use_hash \in BOOLEAN
  /\ hash_collisions = {}
  /\ item = 0
  /\ pc = "start"
  /\ printed = <<>>
  /\ written = <<>>
  /\ SheetIdle

\* The table header, before the loop.
Start ==
  /\ pc = "start"
  /\ pc' = "loop"
  /\ UNCHANGED <<entries, item, printed, written>>
  /\ UNCHANGED sheet_vars

Looping == pc = "loop" /\ item < Len(entries)

\* The entry the loop is at.
Current == EntryOf(entries[item + 1])

\* if not os.path.isdir(file_dir): continue
SkipFile ==
  /\ Looping
  /\ ~Current.is_dir
  /\ item' = item + 1
  /\ UNCHANGED <<entries, pc, printed, written>>
  /\ UNCHANGED sheet_vars

\* A break out of the loop where FolderError continues.
FolderErrorAborts ==
  /\ Looping
  /\ Current.is_dir
  /\ Current.subdirs # 2
  /\ printed' = Append(printed, Line(item + 1, item + 1, "N/A", "N/A",
                                     "Folder Error", Current.subdirs))
  /\ item' = item + 1
  /\ pc' = "done"
  /\ UNCHANGED <<entries, written>>
  /\ UNCHANGED sheet_vars

\* if len(subdirs) != 2: print(...); continue
FolderError ==
  /\ Looping
  /\ Current.is_dir
  /\ Current.subdirs # 2
  /\ printed' = Append(printed, Line(item + 1, item + 1, "N/A", "N/A",
                                     "Folder Error", Current.subdirs))
  /\ item' = item + 1
  /\ UNCHANGED <<entries, pc, written>>
  /\ UNCHANGED sheet_vars

\* if not file1_list or not file2_list: print(...); continue
MissingFile ==
  /\ Looping
  /\ Current.is_dir
  /\ Current.subdirs = 2
  /\ Current.xlsx1 = 0 \/ Current.xlsx2 = 0
  /\ printed' = Append(printed, Line(item + 1, item + 1, "N/A", "N/A",
                                     "Missing File", ""))
  /\ item' = item + 1
  /\ UNCHANGED <<entries, pc, written>>
  /\ UNCHANGED sheet_vars

\* self.file_comparator.process_pair(file1_list[0], file2_list[0], file_dir)
ProcessPair ==
  /\ Looping
  /\ Current.is_dir
  /\ Current.subdirs = 2
  /\ Current.xlsx1 # 0
  /\ Current.xlsx2 # 0
  /\ \E out \in process_pair(item + 1, Current, use_hash,
                             hash_collisions) :
        /\ printed' = printed \o out.printed
        /\ written' = written \o out.written
  /\ item' = item + 1
  /\ UNCHANGED <<entries, pc>>
  /\ UNCHANGED sheet_vars

\* The loop is over: "Comparison Complete."
Finish ==
  /\ pc = "loop"
  /\ item = Len(entries)
  /\ pc' = "done"
  /\ UNCHANGED <<entries, item, printed, written>>
  /\ UNCHANGED sheet_vars

NextApp ==
  \/ Start
  \/ SkipFile
  \/ FolderError
  \/ MissingFile
  \/ ProcessPair
  \/ Finish

\* run is one sequential loop: a step that can be taken is taken.
SpecApp == InitApp /\ [][NextApp]_vars /\ WF_vars(NextApp)

\* ------------------------------------------------------------- properties
\* The field-wise meaning of "the two cells differ": exactly one side null,
\* or both non-null and holding unequal values.
FieldDiffers(a, b) ==
  \/ a.isnull # b.isnull
  \/ ~a.isnull /\ ~b.isnull /\ Signed(a) # Signed(b)

Returned == calls > 0

\* The last call went on to the row comparison.
RowCompared == Returned /\ Len(stages) >= 5 /\ stages[5] = "rows"

RowDiffers(i) ==
  \E k \in 1..Len(df1.columns) :
     FieldDiffers(Cell(df1, i, df1.columns[k]), Cell(df2, i, df1.columns[k]))

\* The (Row Index, Column Name) of every cell that differs field-wise.
DifferingCells ==
  {x \in {<<i - 1, c>> : i \in 1..df1.height, c \in ToSet(df1.columns)} :
     FieldDiffers(Cell(df1, x[1] + 1, x[2]), Cell(df2, x[1] + 1, x[2]))}

\* C1: compare tests shape, column names, column types and zero rows in
\* that order and returns at the first that triggers: the three mismatches
\* with match_rate 0.0 and no diff frame whatever the cells hold, a
\* zero-row pair that passed them as a perfect match with match_rate 1.0
\* and no diff frame; the row comparison runs exactly when none triggered.
C1_CascadeStopsAtFirstCheck ==
  Returned =>
    LET shape == Shape(df1) # Shape(df2)
        names == ~shape /\ df1.columns # df2.columns
        types == ~shape /\ ~names /\ df1.dtypes # df2.dtypes
        empty == ~shape /\ ~names /\ ~types /\ df1.height = 0
        Stopped(status, rate, ran) ==
          /\ result.status = status
          /\ result.match_rate = rate
          /\ ~diff_df.present
          /\ stages = ran
    IN  /\ shape => Stopped("Shape mismatch", Rate(0, 1), <<"shape">>)
        /\ names => Stopped("Column names mismatch", Rate(0, 1),
                            <<"shape", "columns">>)
        /\ types => Stopped("Column type mismatch", Rate(0, 1),
                            <<"shape", "columns", "types">>)
        /\ empty => Stopped("Perfect match", Rate(1, 1),
                            <<"shape", "columns", "types", "empty">>)
        /\ RowCompared <=> ~(shape \/ names \/ types \/ empty)

\* A type mismatch returned for frames that hold rows whose cells differ.
C1_Witness ==
  /\ Returned
  /\ result.status = "Column type mismatch"
  /\ df1.height > 0
  /\ df1.rows # df2.rows

\* C2 as stated: for frames of equal shape the column mismatch is returned
\* exactly when the names differ as sets, with the symmetric difference in
\* its details.
C2_MismatchIffNameSetsDiffer ==
  (Returned /\ Shape(df1) = Shape(df2)) =>
    /\ result.status = "Column names mismatch"
         <=> ToSet(df1.columns) # ToSet(df2.columns)
    /\ result.status = "Column names mismatch" =>
         result.details.diff_cols =
           SymmetricDifference(ToSet(df1.columns), ToSet(df2.columns))

\* C2 amended: for frames of equal shape the column mismatch is returned
\* exactly when the name sequences differ, in a name or in the order; its
\* details hold the symmetric difference of the name sets, which is empty
\* for a pure reordering.
C2_MismatchIffNameSequencesDiffer ==
  (Returned /\ Shape(df1) = Shape(df2)) =>
    /\ result.status = "Column names mismatch" <=> df1.columns # df2.columns
    /\ result.status = "Column names mismatch" =>
         result.details.diff_cols =
           SymmetricDifference(ToSet(df1.columns), ToSet(df2.columns))

\* The same names in another order, reported as a column mismatch.
C2_Witness ==
  /\ Returned
  /\ result.status = "Column names mismatch"
  /\ ToSet(df1.columns) = ToSet(df2.columns)
  /\ result.details.diff_cols = {}

\* C3: with the field-wise strategy row i is flagged exactly when some
\* column of the row has one null side or two unequal non-null values.
C3_FieldwiseMask ==
  (RowCompared /\ ~use_hash) =>
    /\ Len(mask) = df1.height
    /\ \A i \in 1..df1.height : mask[i] <=> RowDiffers(i)

\* A row with a cell null on both sides that is not flagged, and a row
\* with a cell null on one side that is.
C3_Witness ==
  /\ RowCompared
  /\ ~use_hash
  /\ \E i \in 1..df1.height :
        /\ ~mask[i]
        /\ \E k \in 1..Len(df1.columns) :
              df1.rows[i][k].isnull /\ df2.rows[i][k].isnull
  /\ \E i \in 1..df1.height :
        /\ mask[i]
        /\ \E k \in 1..Len(df1.columns) :
              df1.rows[i][k].isnull # df2.rows[i][k].isnull

\* C4: match_rate is in [0, 1]; when the row comparison ran there is at
\* least one row, match_rate is (rows - mismatch_count) / rows, and it is
\* 1.0 exactly when no row is flagged.
C4_MatchRate ==
  Returned =>
    /\ result.match_rate.den > 0
    /\ 0 <= result.match_rate.num
    /\ result.match_rate.num <= result.match_rate.den
    /\ RowCompared =>
         /\ df1.height >= 1
         /\ result.match_rate.num * df1.height =
              (df1.height - Count(mask)) * result.match_rate.den
         /\ result.match_rate.num = result.match_rate.den <=> Count(mask) = 0

\* A row comparison that flagged some rows and not all.
C4_Witness ==
  /\ RowCompared
  /\ Count(mask) > 0
  /\ Count(mask) < df1.height

\* C5: after the row comparison the ratio mismatch_count / rows decides:
\* 0 is a perfect match without diff frame, above 0.10 the high-mismatch
\* outcome with match_rate below 1.0 and no diff frame, and anything in
\* between, 0.10 included, the data mismatch with its diff frame.
C5_ThresholdOutcome ==
  RowCompared =>
    LET n == Count(mask)
        rows == df1.height
    IN  /\ n = 0 =>
              /\ result.status = "Perfect match"
              /\ result.match_rate = Rate(1, 1)
              /\ ~diff_df.present
        /\ n * 10 > rows =>
              /\ result.status = "Data mismatch >10.0%"
              /\ result.match_rate.num < result.match_rate.den
              /\ ~diff_df.present
        /\ (n > 0 /\ n * 10 <= rows) =>
              /\ result.status = "Data mismatch"
              /\ diff_df.present

\* A ratio of exactly 0.10 returned as a data mismatch with its diff frame.
C5_Witness ==
  /\ RowCompared
  /\ Count(mask) * 10 = df1.height
  /\ result.status = "Data mismatch"
  /\ diff_df.present

\* C6: every record of the diff frame is of a flagged row and of a cell
\* whose two values differ field-wise.
C6_OnlyDifferingCells ==
  (Returned /\ diff_df.present) =>
    \A k \in 1..Len(diff_df.records) :
       LET r == diff_df.records[k]
       IN  /\ mask[r.row_index + 1]
           /\ <<r.row_index, r.column_name>> \in DifferingCells

\* C7 as stated: for frames of one schema with at least one row, the hash
\* strategy returns the status and match_rate the field-wise strategy
\* returns.
C7_HashEqualsFieldwise ==
  RowCompared =>
    \A o \in compare(df1, df2, FALSE, {}) :
       /\ result.status = o.result.status
       /\ result.match_rate = o.result.match_rate

\* C7 amended: with no field-wise difference both strategies return a
\* perfect match with match_rate 1.0 and no diff frame; the hash strategy
\* flags only rows that differ field-wise, so its match_rate is never below
\* the field-wise one; and when no two different rows at one index share a
\* hash it returns the status and match_rate of the field-wise strategy.
C7_HashUnderFlags ==
  RowCompared =>
    /\ DifferingCells = {} =>
          /\ result.status = "Perfect match"
          /\ result.match_rate = Rate(1, 1)
          /\ ~diff_df.present
    /\ \A i \in 1..df1.height : mask[i] => RowDiffers(i)
    /\ \A o \in compare(df1, df2, FALSE, {}) :
          /\ result.match_rate.num * o.result.match_rate.den >=
               o.result.match_rate.num * result.match_rate.den
          /\ hash_collisions = {} =>
                /\ result.status = o.result.status
                /\ result.match_rate = o.result.match_rate

\* The hash strategy leaving unflagged a row that differs field-wise.
C7_Witness ==
  /\ RowCompared
  /\ use_hash
  /\ \E i \in 1..df1.height : RowDiffers(i) /\ ~mask[i]
  /\ \E i \in 1..df1.height : mask[i]

\* The order of the diff frame: ascending by Row Index, then by Column Name
\* as text.
KeyBefore(a, b) ==
  \/ a.row_index < b.row_index
  \/ a.row_index = b.row_index /\ TextLess(a.column_name, b.column_name)

\* C8: the diff frame is sorted ascending by (Row Index, Column Name) with
\* no key twice, and a second call on the same frames returns the same
\* sequence.
C8_SortedAndRepeatable ==
  (Returned /\ diff_df.present) =>
    /\ \A a, b \in 1..Len(diff_df.records) :
          a < b => KeyBefore(diff_df.records[a], diff_df.records[b])
    /\ calls = 2 => previous.diff_df = diff_df

\* Two calls that returned a diff frame with two records of one row.
C8_Witness ==
  /\ calls = 2
  /\ diff_df.present
  /\ \E a, b \in 1..Len(diff_df.records) :
        /\ a < b
        /\ diff_df.records[a].row_index = diff_df.records[b].row_index

\* C10: the diff frame of a data mismatch holds exactly one record per cell
\* that differs field-wise and nothing else, so it is not empty and is as
\* long as the differing cells are many.  Stated for the calls in which no
\* two different rows share a hash, where both strategies flag the rows
\* that differ.
C10_OneRecordPerDifferingCell ==
  (/\ Returned
   /\ result.status = "Data mismatch"
   /\ diff_df.present
   /\ hash_collisions = {}) =>
    /\ {<<diff_df.records[k].row_index, diff_df.records[k].column_name>> :
          k \in 1..Len(diff_df.records)} = DifferingCells
    /\ Len(diff_df.records) = Cardinality(DifferingCells)
    /\ Len(diff_df.records) > 0

\* The lines of entry k on stdout.
LinesOf(k) == {n \in 1..Len(printed) : printed[n].entry = k}

FailureStatuses ==
  {"Folder Error", "Missing File", "File name mismatch", "Read Error",
   "Sheet names mismatch", "Shape mismatch", "Column names mismatch",
   "Column type mismatch", "Data mismatch >10.0%", "Data mismatch"}

\* C9: no failure or mismatch of an entry ends the run: the loop takes the
\* entries one at a time, it is over only when it has taken them all, each
\* directory among them has then left its lines, and the run does come to
\* its end.
C9_RunVisitsEveryEntry ==
  /\ [](pc = "done" =>
          /\ item = Len(entries)
          /\ \A k \in 1..Len(entries) :
                EntryOf(entries[k]).is_dir => LinesOf(k) # {})
  /\ [][item' = item \/ (item' = item + 1 /\ item < Len(entries))]_vars
  /\ <>(pc = "done")

\* A finished run in which an entry that failed is followed by an entry
\* whose report was written.
C9_Witness ==
  /\ pc = "done"
  /\ \E n \in 1..Len(printed), f \in 1..Len(written) :
        /\ printed[n].status \in FailureStatuses
        /\ printed[n].entry < written[f].entry

====
